---- MODULE Spec2Model ----
(***************************************************************************)
(* MiniVSFS: the image builder (mkfs_builder) and the file adder            *)
(* (mkfs_adder) of src/mkfs_adder.c, modelled at the level of the bytes of  *)
(* the image.                                                               *)
(*                                                                          *)
(* A byte array (the image buffer, a packed struct, a host file's content)  *)
(* is a function from the offsets of its NON-ZERO bytes to their values;    *)
(* every offset outside the function's domain holds the byte 0.  This is an *)
(* exact encoding of the array: reads, memcpy, memset and the little-endian *)
(* (x86) field accesses of the packed structs are computed on it byte by    *)
(* byte.  A 32-bit CRC value is the tuple of its four bytes, least          *)
(* significant first (TLC's integers are 32-bit signed).                    *)
(***************************************************************************)
EXTENDS Integers, Sequences, FiniteSets, TLC

VARIABLES disk, pc, outcome, clock, runs, argv, layout, img, img_size, sb,
          host_file, need_blocks, found_inode, blocks_found, ino, root_inode

vars == <<disk, pc, outcome, clock, runs, argv, layout, img, img_size, sb,
          host_file, need_blocks, found_inode, blocks_found, ino, root_inode>>

(***************************************************************************)
(* Program constants                                                        *)
(***************************************************************************)
BS == 4096

INODE_SIZE == 128

ROOT_INO == 1

DIRECT_MAX == 12

MAX_FILENAME == 58

DIRENT_SIZE == 64

SB_SIZE == 116

MAGIC == 1297503046

MODE_FILE == 32768

MODE_DIR == 16384

\* superblock_t field offsets (packed)
SB_MAGIC == 0

SB_VERSION == 4

SB_BLOCK_SIZE == 8

SB_TOTAL_BLOCKS == 12

SB_INODE_COUNT == 20

SB_INODE_BITMAP_START == 28

SB_INODE_BITMAP_BLOCKS == 36

SB_DATA_BITMAP_START == 44

SB_DATA_BITMAP_BLOCKS == 52

SB_INODE_TABLE_START == 60

SB_INODE_TABLE_BLOCKS == 68

SB_DATA_REGION_START == 76

SB_DATA_REGION_BLOCKS == 84

SB_ROOT_INODE == 92

SB_MTIME_EPOCH == 100

SB_FLAGS == 108

SB_CHECKSUM == 112

\* inode_t field offsets (packed)
INO_MODE == 0

INO_LINKS == 2

INO_UID == 4

INO_GID == 8

INO_SIZE_BYTES == 12

INO_ATIME == 20

INO_MTIME == 28

INO_CTIME == 36

INO_DIRECT == 44

INO_CRC == 120

\* dirent64_t field offsets (packed)
DE_INODE_NO == 0

DE_TYPE == 4

DE_NAME == 5

DE_CHECKSUM == 63

(***************************************************************************)
(* Byte arrays                                                              *)
(***************************************************************************)
\* calloc / memset(p, 0, n) of a whole object: every byte is 0
Zeroed == [i \in {} |-> 0]

\* p[i]
Get(m, i) == IF i \in DOMAIN m THEN m[i] ELSE 0

\* memset(dst + off, 0, n)
Memset0(dst, off, n) ==
    [i \in {j \in DOMAIN dst : j < off \/ j >= off + n} |-> dst[i]]

\* memcpy(dst + off, src + soff, n)
Memcpy(dst, off, src, soff, n) ==
    LET keep == {j \in DOMAIN dst : j < off \/ j >= off + n}
        new  == {j - soff + off : j \in {k \in DOMAIN src : k >= soff /\ k < soff + n}}
    IN  [i \in keep \cup new |-> IF i \in new THEN src[i - off + soff] ELSE dst[i]]

\* the n bytes at p+off as an array of their own
Slice(m, off, n) == Memcpy(Zeroed, 0, m, off, n)

\* a little-endian unsigned integer of n bytes read at off
RECURSIVE LoadLE(_, _, _)
LoadLE(m, off, n) ==
    IF n = 0 THEN 0 ELSE Get(m, off) + 256 * LoadLE(m, off + 1, n - 1)

\* byte k of the little-endian representation of v
RECURSIVE ByteOf(_, _)
ByteOf(v, k) == IF k = 0 THEN v % 256 ELSE ByteOf(v \div 256, k - 1)

\* a little-endian unsigned integer of n bytes stored at off
StoreLE(m, off, n, v) ==
    LET nz == {k \in 0..(n - 1) : ByteOf(v, k) # 0}
        keep == {j \in DOMAIN m : j < off \/ j >= off + n}
    IN  [i \in keep \cup {off + k : k \in nz} |->
            IF i \in keep THEN m[i] ELSE ByteOf(v, i - off)]

\* the bytes of a tuple stored at off (tuple index 1 at off)
StoreBytes(m, off, t) ==
    LET n == Len(t)
        keep == {j \in DOMAIN m : j < off \/ j >= off + n}
        nz == {k \in 1..n : t[k] # 0}
    IN  [i \in keep \cup {off + k - 1 : k \in nz} |->
            IF i \in keep THEN m[i] ELSE t[i - off + 1]]

\* the n bytes at off as a tuple
LoadBytes(m, off, n) == [k \in 1..n |-> Get(m, off + k - 1)]

(***************************************************************************)
(* CRC32 and the three checksums                                            *)
(***************************************************************************)
RECURSIVE XorBits(_, _, _)
XorBits(a, b, n) ==
    IF n = 0 THEN 0
    ELSE ((a + b) % 2) + 2 * XorBits(a \div 2, b \div 2, n - 1)

\* a ^ b on uint8_t
Xor8 == [a \in 0..255 |-> [b \in 0..255 |-> XorBits(a, b, 8)]]

\* a ^ b on uint32_t
Xor32(a, b) ==
    <<Xor8[a[1]][b[1]], Xor8[a[2]][b[2]], Xor8[a[3]][b[3]], Xor8[a[4]][b[4]]>>

\* c >> 1 on uint32_t
Shr1(c) ==
    << (c[1] \div 2) + 128 * (c[2] % 2), (c[2] \div 2) + 128 * (c[3] % 2),
       (c[3] \div 2) + 128 * (c[4] % 2), c[4] \div 2 >>

\* 0xEDB88320u
CRC_POLY == <<32, 131, 184, 237>>

\* 0xFFFFFFFFu
ALL_ONES == <<255, 255, 255, 255>>

RECURSIVE crc32_init_inner(_, _)
crc32_init_inner(c, j) ==
    IF j = 0 THEN c
    ELSE crc32_init_inner(IF c[1] % 2 = 1 THEN Xor32(CRC_POLY, Shr1(c)) ELSE Shr1(c), j - 1)

CRC32_TAB == [i \in 0..255 |-> crc32_init_inner(<<i, 0, 0, 0>>, 8)]

\* c = CRC32_TAB[(c^p[i])&0xFF] ^ (c>>8)
crc32_step(c, p) ==
    LET t == CRC32_TAB[Xor8[c[1]][p]]
    IN  <<Xor8[t[1]][c[2]], Xor8[t[2]][c[3]], Xor8[t[3]][c[4]], t[4]>>

\* the loop of crc32 over p[lo..hi-1], the left half before the right half
RECURSIVE crc32_loop(_, _, _, _)
crc32_loop(c, p, lo, hi) ==
    IF hi <= lo THEN c
    ELSE IF hi = lo + 1 THEN crc32_step(c, Get(p, lo))
    ELSE LET mid == (lo + hi) \div 2
             l == crc32_loop(c, p, lo, mid)
         IN  IF l[1] >= 0 THEN crc32_loop(l, p, mid, hi) ELSE l

crc32(data, n) == Xor32(crc32_loop(ALL_ONES, data, 0, n), ALL_ONES)

\* sb is the 116-byte struct; the result is the struct with checksum stored
superblock_crc_finalize(s) ==
    LET s0 == Memset0(s, SB_CHECKSUM, 4)
        block == Memcpy(Zeroed, 0, s0, 0, SB_SIZE)
    IN  StoreBytes(s0, SB_CHECKSUM, crc32(block, BS - 4))

inode_crc_finalize(i) ==
    LET tmp == Memset0(i, 120, 8)
        c == crc32(tmp, 120)
    IN  StoreBytes(Memset0(i, INO_CRC, 8), INO_CRC, c)

RECURSIVE dirent_xor(_, _)
dirent_xor(de, i) ==
    IF i = 0 THEN 0 ELSE Xor8[dirent_xor(de, i - 1)][Get(de, i - 1)]

dirent_checksum_finalize(de) ==
    StoreBytes(de, DE_CHECKSUM, <<dirent_xor(de, 63)>>)

(***************************************************************************)
(* Bitmaps: bm is the offset of the bitmap block in the buffer m            *)
(***************************************************************************)
RECURSIVE Pow2(_)
Pow2(k) == IF k = 0 THEN 1 ELSE 2 * Pow2(k - 1)

bit_get(m, bm, idx) == (Get(m, bm + (idx \div 8)) \div Pow2(idx % 8)) % 2

bit_set(m, bm, idx) ==
    IF bit_get(m, bm, idx) = 1 THEN m
    ELSE StoreBytes(m, bm + (idx \div 8), <<Get(m, bm + (idx \div 8)) + Pow2(idx % 8)>>)

bit_clear(m, bm, idx) ==
    IF bit_get(m, bm, idx) = 0 THEN m
    ELSE StoreBytes(m, bm + (idx \div 8), <<Get(m, bm + (idx \div 8)) - Pow2(idx % 8)>>)

(***************************************************************************)
(* Builder: layout and image construction (mkfs_builder)                    *)
(***************************************************************************)
\* total_blocks = (size_kib * 1024u) / BS
TotalBlocks(size_kib) == (size_kib * 1024) \div BS

\* "ok" or the validation that rejects the command line
Validate(size_kib, inode_cnt) ==
    IF size_kib = 0 \/ inode_cnt = 0 THEN "Usage"
    ELSE IF size_kib < 180 \/ size_kib > 4096 \/ size_kib % 4 # 0 THEN "BadSize"
    ELSE IF inode_cnt < 128 \/ inode_cnt > 512 THEN "BadInodes"
    ELSE IF TotalBlocks(size_kib) < 8 THEN "TooSmall"
    ELSE "ok"

\* the layout locals of the builder
Layout(total_blocks, inode_cnt) ==
    LET inode_tbl_bytes  == inode_cnt * INODE_SIZE
        inode_tbl_blocks == (inode_tbl_bytes + BS - 1) \div BS
        inode_table_start == 3
        data_region_start == inode_table_start + inode_tbl_blocks
    IN  [ total_blocks       |-> total_blocks,
          inode_cnt          |-> inode_cnt,
          inode_bitmap_start |-> 1,
          data_bitmap_start  |-> 2,
          inode_table_start  |-> inode_table_start,
          inode_tbl_blocks   |-> inode_tbl_blocks,
          data_region_start  |-> data_region_start,
          data_region_blocks |-> total_blocks - data_region_start ]

\* mutant: a data region of zero blocks is accepted
NoDataRegion_Strict(lay) == lay.data_region_start > lay.total_blocks

\* if(data_region_start >= total_blocks)
NoDataRegion(lay) == lay.data_region_start >= lay.total_blocks

NoLayout ==
    [ total_blocks |-> 0, inode_cnt |-> 0, inode_bitmap_start |-> 0,
      data_bitmap_start |-> 0, inode_table_start |-> 0, inode_tbl_blocks |-> 0,
      data_region_start |-> 0, data_region_blocks |-> 0 ]

\* the superblock struct of the builder, checksum finalized
BuildSuperblock(lay, now) ==
    LET s1  == StoreLE(Zeroed, SB_MAGIC, 4, MAGIC)
        s2  == StoreLE(s1, SB_VERSION, 4, 1)
        s3  == StoreLE(s2, SB_BLOCK_SIZE, 4, BS)
        s4  == StoreLE(s3, SB_TOTAL_BLOCKS, 8, lay.total_blocks)
        s5  == StoreLE(s4, SB_INODE_COUNT, 8, lay.inode_cnt)
        s6  == StoreLE(s5, SB_INODE_BITMAP_START, 8, lay.inode_bitmap_start)
        s7  == StoreLE(s6, SB_INODE_BITMAP_BLOCKS, 8, 1)
        s8  == StoreLE(s7, SB_DATA_BITMAP_START, 8, lay.data_bitmap_start)
        s9  == StoreLE(s8, SB_DATA_BITMAP_BLOCKS, 8, 1)
        s10 == StoreLE(s9, SB_INODE_TABLE_START, 8, lay.inode_table_start)
        s11 == StoreLE(s10, SB_INODE_TABLE_BLOCKS, 8, lay.inode_tbl_blocks)
        s12 == StoreLE(s11, SB_DATA_REGION_START, 8, lay.data_region_start)
        s13 == StoreLE(s12, SB_DATA_REGION_BLOCKS, 8, lay.data_region_blocks)
        s14 == StoreLE(s13, SB_ROOT_INODE, 8, ROOT_INO)
        s15 == StoreLE(s14, SB_MTIME_EPOCH, 8, now)
        s16 == StoreLE(s15, SB_FLAGS, 4, 0)
    IN  superblock_crc_finalize(s16)

\* memcpy(img, &sb, sizeof(sb))
WriteSuperblock(m, s) == Memcpy(m, 0, s, 0, SB_SIZE)

\* the bitmaps built with the inode bitmap taken to start one block early
BuildBitmaps_OneBlockEarly(m, lay) ==
    LET inode_bm == (lay.inode_bitmap_start - 1) * BS
        data_bm  == lay.data_bitmap_start * BS
        m1 == Memset0(m, inode_bm, BS)
        m2 == Memset0(m1, data_bm, BS)
        m3 == bit_set(m2, inode_bm, 0)
    IN  bit_set(m3, data_bm, 0)

\* both bitmap blocks zeroed, bit 0 of each set
BuildBitmaps(m, lay) ==
    LET inode_bm == lay.inode_bitmap_start * BS
        data_bm  == lay.data_bitmap_start * BS
        m1 == Memset0(m, inode_bm, BS)
        m2 == Memset0(m1, data_bm, BS)
        m3 == bit_set(m2, inode_bm, 0)
    IN  bit_set(m3, data_bm, 0)

\* the root inode struct of the builder, crc finalized
BuildRootInode(now) ==
    LET r1 == StoreLE(Zeroed, INO_MODE, 2, MODE_DIR)
        r2 == StoreLE(r1, INO_LINKS, 2, 2)
        r3 == StoreLE(r2, INO_UID, 4, 0)
        r4 == StoreLE(r3, INO_GID, 4, 0)
        r5 == StoreLE(r4, INO_SIZE_BYTES, 8, 2 * DIRENT_SIZE)
        r6 == StoreLE(r5, INO_ATIME, 8, now)
        r7 == StoreLE(r6, INO_MTIME, 8, now)
        r8 == StoreLE(r7, INO_CTIME, 8, now)
        r9 == StoreLE(r8, INO_DIRECT, 4, 0)
    IN  inode_crc_finalize(r9)

\* inode table zeroed, root inode at index 0
BuildInodeTable(m, lay, now) ==
    LET inode_tbl == lay.inode_table_start * BS
        m1 == Memset0(m, inode_tbl, lay.inode_tbl_blocks * BS)
    IN  Memcpy(m1, inode_tbl + 0 * INODE_SIZE, BuildRootInode(now), 0, INODE_SIZE)

\* strncpy(dst + off, src, n): src is the string's characters
strncpy(dst, off, src, n) ==
    StoreBytes(dst, off, [k \in 1..n |-> IF k <= Len(src) THEN src[k] ELSE 0])

\* mutant: the entry is given the type of a file
BuildDirent_FileType(name) ==
    LET d1 == StoreLE(Zeroed, DE_INODE_NO, 4, ROOT_INO)
        d2 == StoreLE(d1, DE_TYPE, 1, 1)
        d3 == strncpy(d2, DE_NAME, name, MAX_FILENAME - 1)
    IN  dirent_checksum_finalize(d3)

\* a directory entry of the builder: inode ROOT_INO, type 2, the given name
BuildDirent(name) ==
    LET d1 == StoreLE(Zeroed, DE_INODE_NO, 4, ROOT_INO)
        d2 == StoreLE(d1, DE_TYPE, 1, 2)
        d3 == strncpy(d2, DE_NAME, name, MAX_FILENAME - 1)
    IN  dirent_checksum_finalize(d3)

\* "."
DOT == <<46>>

\* ".."
DOTDOT == <<46, 46>>

\* first data block cleared, "." and ".." at its start
BuildRootDir(m, lay) ==
    LET data_region == lay.data_region_start * BS
        m1 == Memset0(m, data_region + 0 * BS, BS)
        m2 == Memcpy(m1, data_region + 0 * BS + 0 * DIRENT_SIZE, BuildDirent(DOT), 0, DIRENT_SIZE)
    IN  Memcpy(m2, data_region + 0 * BS + 1 * DIRENT_SIZE, BuildDirent(DOTDOT), 0, DIRENT_SIZE)

\* the image file at the image path: its size and its bytes
ImageFile(size, bytes) == [size |-> size, bytes |-> bytes]

\* no file at the image path
NoFile == [size |-> -1, bytes |-> Zeroed]

(***************************************************************************)
(* Adder (mkfs_adder)                                                       *)
(***************************************************************************)
\* memcpy(&sb, img, sizeof(sb))
ParseSuperblock(m) == Slice(m, 0, SB_SIZE)

BadMagic(s) == LoadLE(s, SB_MAGIC, 4) # MAGIC

\* the region pointers, as offsets into img
inode_bm_of(s) == LoadLE(s, SB_INODE_BITMAP_START, 8) * BS

data_bm_of(s) == LoadLE(s, SB_DATA_BITMAP_START, 8) * BS

inode_tbl_of(s) == LoadLE(s, SB_INODE_TABLE_START, 8) * BS

data_region_of(s) == LoadLE(s, SB_DATA_REGION_START, 8) * BS

inode_count_of(s) == LoadLE(s, SB_INODE_COUNT, 8)

data_region_blocks_of(s) == LoadLE(s, SB_DATA_REGION_BLOCKS, 8)

\* need_blocks = (file_size+BS-1)/BS; if(need_blocks==0) need_blocks=1
NeedBlocks(file_size) ==
    LET n == (file_size + BS - 1) \div BS IN IF n = 0 THEN 1 ELSE n

\* mutant: a file of exactly DIRECT_MAX blocks is rejected
TooLarge_OffByOne(need) == need >= DIRECT_MAX

\* if(need_blocks>DIRECT_MAX)
TooLarge(need) == need > DIRECT_MAX

\* mutant: the scan stops at the number of file entries a directory block holds
RECURSIVE FindFreeInode_ShortScan(_, _, _)
FindFreeInode_ShortScan(m, s, i) ==
    IF i >= (BS \div DIRENT_SIZE) - 1 THEN -1
    ELSE IF bit_get(m, inode_bm_of(s), i) = 0 THEN i
    ELSE FindFreeInode_ShortScan(m, s, i + 1)

\* the scan for a free inode from index i: the index found, or -1
RECURSIVE FindFreeInode(_, _, _)
FindFreeInode(m, s, i) ==
    IF i >= inode_count_of(s) THEN -1
    ELSE IF bit_get(m, inode_bm_of(s), i) = 0 THEN i
    ELSE FindFreeInode(m, s, i + 1)

\* mutant: each block found is put in front of those found before
RECURSIVE FindFreeBlocks_Descending(_, _, _, _, _)
FindFreeBlocks_Descending(m, s, need, i, acc) ==
    IF ~(i < data_region_blocks_of(s) /\ Len(acc) < need) THEN acc
    ELSE IF bit_get(m, data_bm_of(s), i) = 0
         THEN FindFreeBlocks_Descending(m, s, need, i + 1, <<i>> \o acc)
         ELSE FindFreeBlocks_Descending(m, s, need, i + 1, acc)

\* the scan for free data blocks from index i: blocks_found[0..found-1]
RECURSIVE FindFreeBlocks(_, _, _, _, _)
FindFreeBlocks(m, s, need, i, acc) ==
    IF ~(i < data_region_blocks_of(s) /\ Len(acc) < need) THEN acc
    ELSE IF bit_get(m, data_bm_of(s), i) = 0
         THEN FindFreeBlocks(m, s, need, i + 1, Append(acc, i))
         ELSE FindFreeBlocks(m, s, need, i + 1, acc)

\* if(found<need_blocks)
NotEnoughBlocks(found, need) == Len(found) < need

\* ino.direct[i]=blocks_found[i] for i < need_blocks
RECURSIVE SetDirect(_, _, _, _)
SetDirect(i, found, need, k) ==
    IF k >= need THEN i
    ELSE SetDirect(StoreLE(i, INO_DIRECT + 4 * k, 4, found[k + 1]), found, need, k + 1)

\* the new inode struct, crc finalized
MakeInode(file_size, now, found, need) ==
    LET i1 == StoreLE(Zeroed, INO_MODE, 2, MODE_FILE)
        i2 == StoreLE(i1, INO_LINKS, 2, 1)
        i3 == StoreLE(i2, INO_UID, 4, 0)
        i4 == StoreLE(i3, INO_GID, 4, 0)
        i5 == StoreLE(i4, INO_SIZE_BYTES, 8, file_size)
        i6 == StoreLE(i5, INO_ATIME, 8, now)
        i7 == StoreLE(i6, INO_MTIME, 8, now)
        i8 == StoreLE(i7, INO_CTIME, 8, now)
        i9 == SetDirect(i8, found, need, 0)
    IN  inode_crc_finalize(i9)

\* mutant: the data bitmap bit is not set
MarkBlock_NoBit(m, s, found, f, i) ==
    LET blk      == found[i + 1]
        copy_off == i * BS
        remain   == IF f.size > copy_off THEN f.size - copy_off ELSE 0
        tocopy   == IF remain > BS THEN BS ELSE remain
        dst      == data_region_of(s) + blk * BS
        m2       == IF tocopy # 0 THEN Memcpy(m, dst, f.bytes, copy_off, tocopy) ELSE m
    IN  IF tocopy < BS THEN Memset0(m2, dst + tocopy, BS - tocopy) ELSE m2

\* mutant: every block is copied from the start of the file
MarkBlock_NoOffset(m, s, found, f, i) ==
    LET blk      == found[i + 1]
        m1       == bit_set(m, data_bm_of(s), blk)
        copy_off == i * BS
        remain   == IF f.size > copy_off THEN f.size - copy_off ELSE 0
        tocopy   == IF remain > BS THEN BS ELSE remain
        dst      == data_region_of(s) + blk * BS
        m2       == IF tocopy # 0 THEN Memcpy(m1, dst, f.bytes, 0, tocopy) ELSE m1
    IN  IF tocopy < BS THEN Memset0(m2, dst + tocopy, BS - tocopy) ELSE m2

\* mutant: the block index is taken to count from 1
MarkBlock_PreviousBlock(m, s, found, f, i) ==
    LET blk      == found[i + 1]
        m1       == bit_set(m, data_bm_of(s), blk)
        copy_off == i * BS
        remain   == IF f.size > copy_off THEN f.size - copy_off ELSE 0
        tocopy   == IF remain > BS THEN BS ELSE remain
        dst      == data_region_of(s) + (blk - 1) * BS
        m2       == IF tocopy # 0 THEN Memcpy(m1, dst, f.bytes, copy_off, tocopy) ELSE m1
    IN  IF tocopy < BS THEN Memset0(m2, dst + tocopy, BS - tocopy) ELSE m2

\* one round of the marking loop: block i of the file
MarkBlock(m, s, found, f, i) ==
    LET blk      == found[i + 1]
        m1       == bit_set(m, data_bm_of(s), blk)
        copy_off == i * BS
        remain   == IF f.size > copy_off THEN f.size - copy_off ELSE 0
        tocopy   == IF remain > BS THEN BS ELSE remain
        dst      == data_region_of(s) + blk * BS
        m2       == IF tocopy # 0 THEN Memcpy(m1, dst, f.bytes, copy_off, tocopy) ELSE m1
    IN  IF tocopy < BS THEN Memset0(m2, dst + tocopy, BS - tocopy) ELSE m2

RECURSIVE MarkLoop(_, _, _, _, _, _)
MarkLoop(m, s, found, need, f, i) ==
    IF i >= need THEN m
    ELSE MarkLoop(MarkBlock(m, s, found, f, i), s, found, need, f, i + 1)

\* mutant: the inode bit is not set
MarkAndCopy_NoInodeBit(m, s, fino, found, need, f) ==
    MarkLoop(m, s, found, need, f, 0)

\* mark inode and data blocks, copying the file's content
MarkAndCopy(m, s, fino, found, need, f) ==
    MarkLoop(bit_set(m, inode_bm_of(s), fino), s, found, need, f, 0)

\* memcpy(inode_tbl + found_inode*INODE_SIZE, &ino, INODE_SIZE)
WriteInode(m, s, fino, i) ==
    Memcpy(m, inode_tbl_of(s) + fino * INODE_SIZE, i, 0, INODE_SIZE)

\* memcpy(&root_inode, inode_tbl + (ROOT_INO-1)*INODE_SIZE, INODE_SIZE)
ReadRootInode(m, s) == Slice(m, inode_tbl_of(s) + (ROOT_INO - 1) * INODE_SIZE, INODE_SIZE)

root_rel_of(r) == LoadLE(r, INO_DIRECT, 4)

\* if(root_rel>=sb.data_region_blocks)
RootInvalid(r, s) == root_rel_of(r) >= data_region_blocks_of(s)

root_block_of(r, s) == data_region_of(s) + root_rel_of(r) * BS

\* mutant: the scan keeps the last entry with inode_no == 0
RECURSIVE FindFreeDirent_Last(_, _, _)
FindFreeDirent_Last(m, root_block, off) ==
    IF ~(off + DIRENT_SIZE <= BS) THEN -1
    ELSE LET later == FindFreeDirent_Last(m, root_block, off + DIRENT_SIZE)
         IN  IF later >= 0 THEN later
             ELSE IF LoadLE(m, root_block + off + DE_INODE_NO, 4) = 0 THEN off
             ELSE -1

\* the scan of the root block from offset off: the offset of the first entry
\* with inode_no == 0, or -1
RECURSIVE FindFreeDirent(_, _, _)
FindFreeDirent(m, root_block, off) ==
    IF ~(off + DIRENT_SIZE <= BS) THEN -1
    ELSE IF LoadLE(m, root_block + off + DE_INODE_NO, 4) = 0 THEN off
    ELSE FindFreeDirent(m, root_block, off + DIRENT_SIZE)

\* index of the last '/' of the path, 0 if none (strrchr)
RECURSIVE LastSlash(_, _)
LastSlash(path, k) ==
    IF k = 0 THEN 0 ELSE IF path[k] = 47 THEN k ELSE LastSlash(path, k - 1)

\* fname = slash ? slash+1 : host_file
BaseName(path) == SubSeq(path, LastSlash(path, Len(path)) + 1, Len(path))

\* the new directory entry, checksum finalized
NewDirent(new_ino, path) ==
    LET d1 == StoreLE(Zeroed, DE_INODE_NO, 4, new_ino)
        d2 == StoreLE(d1, DE_TYPE, 1, 1)
        d3 == strncpy(d2, DE_NAME, BaseName(path), MAX_FILENAME - 1)
    IN  dirent_checksum_finalize(d3)

\* memcpy(de, &nde, sizeof(nde))
WriteDirent(m, root_block, off, nde) == Memcpy(m, root_block + off, nde, 0, DIRENT_SIZE)

\* bit_clear of the inode bit and of the data bits blocks_found[k..need-1]
RECURSIVE ClearBlocks(_, _, _, _, _)
ClearBlocks(m, s, found, need, k) ==
    IF k >= need THEN m
    ELSE ClearBlocks(bit_clear(m, data_bm_of(s), found[k + 1]), s, found, need, k + 1)

\* the buffer when no directory slot was found
NoSlotRollback(m, s, fino, found, need) ==
    ClearBlocks(bit_clear(m, inode_bm_of(s), fino), s, found, need, 0)

\* the buffer when the root pointer was found invalid
RootInvalidExit(m, s, fino, found, need) == m

\* mutant: the root inode's crc is not finalized again
UpdateRootInode_Stale(r) ==
    LET r1 == StoreLE(r, INO_LINKS, 2, (LoadLE(r, INO_LINKS, 2) + 1) % 65536)
    IN  StoreLE(r1, INO_SIZE_BYTES, 8, LoadLE(r1, INO_SIZE_BYTES, 8) + DIRENT_SIZE)

\* mutant: size_bytes is not increased
UpdateRootInode_NoSize(r) ==
    inode_crc_finalize(StoreLE(r, INO_LINKS, 2, (LoadLE(r, INO_LINKS, 2) + 1) % 65536))

\* root_inode.links+=1; root_inode.size_bytes+=sizeof(dirent64_t); finalize
UpdateRootInode(r) ==
    LET r1 == StoreLE(r, INO_LINKS, 2, (LoadLE(r, INO_LINKS, 2) + 1) % 65536)
        r2 == StoreLE(r1, INO_SIZE_BYTES, 8, LoadLE(r1, INO_SIZE_BYTES, 8) + DIRENT_SIZE)
    IN  inode_crc_finalize(r2)

\* memcpy(inode_tbl + (ROOT_INO-1)*INODE_SIZE, &root_inode, INODE_SIZE)
WriteRootInode(m, s, r) ==
    Memcpy(m, inode_tbl_of(s) + (ROOT_INO - 1) * INODE_SIZE, r, 0, INODE_SIZE)

\* mutant: the time is stored in the field before mtime_epoch
UpdateSuperblock_WrongField(s, now) ==
    superblock_crc_finalize(StoreLE(s, SB_ROOT_INODE, 8, now))

\* sb.mtime_epoch=time(NULL); superblock_crc_finalize(&sb)
UpdateSuperblock(s, now) ==
    superblock_crc_finalize(StoreLE(s, SB_MTIME_EPOCH, 8, now))

(***************************************************************************)
(* Whole runs, for the images the image path may hold initially             *)
(***************************************************************************)
\* time(NULL) when the clock stands at c
Time(c) == 1700000000 + c

\* the image file a successful builder run writes
FormatImage(size_kib, inode_cnt, now1, now2) ==
    LET lay == Layout(TotalBlocks(size_kib), inode_cnt)
        m1  == WriteSuperblock(Zeroed, BuildSuperblock(lay, now1))
        m2  == BuildBitmaps(m1, lay)
        m3  == BuildInodeTable(m2, lay, now2)
    IN  ImageFile(lay.total_blocks * BS, BuildRootDir(m3, lay))

\* the image file a successful adder run writes for host file f
AddedImage(image, f, now1, now2) ==
    LET m0    == image.bytes
        s     == ParseSuperblock(m0)
        need  == NeedBlocks(f.size)
        fino  == FindFreeInode(m0, s, 0)
        found == FindFreeBlocks(m0, s, need, 0, <<>>)
        i     == MakeInode(f.size, now1, found, need)
        m1    == MarkAndCopy(m0, s, fino, found, need, f)
        m2    == WriteInode(m1, s, fino, i)
        r     == ReadRootInode(m2, s)
        rb    == root_block_of(r, s)
        off   == FindFreeDirent(m2, rb, 0)
        m3    == WriteDirent(m2, rb, off, NewDirent(fino + 1, f.path))
        m4    == WriteRootInode(m3, s, UpdateRootInode(r))
        m5    == WriteSuperblock(m4, UpdateSuperblock(s, now2))
    IN  ImageFile(image.size, m5)

RECURSIVE Prefill(_, _, _)
Prefill(image, f, k) ==
    IF k = 0 THEN image
    ELSE LET prev == Prefill(image, f, k - 1)
         IN  IF prev.size >= 0 THEN AddedImage(prev, f, Time(0), Time(0)) ELSE prev

(***************************************************************************)
(* Inputs                                                                   *)
(***************************************************************************)
\* at most MaxRuns program runs in a behaviour
MaxRuns == 2

\* the clock advances at most MaxTick seconds in a behaviour
MaxTick == 1

\* --size-kib and --inodes given to the builder
BuilderArgs ==
    { [size_kib |-> 180, inode_cnt |-> 128],
      [size_kib |-> 288, inode_cnt |-> 129],
      [size_kib |-> 0,   inode_cnt |-> 128],
      [size_kib |-> 182, inode_cnt |-> 128],
      [size_kib |-> 180, inode_cnt |-> 513] }

NoArgs == [size_kib |-> 0, inode_cnt |-> 0]

\* a host file: its path (characters), its size and its bytes
HostFile(path, size, bytes) == [path |-> path, size |-> size, bytes |-> bytes]

NoHostFile == HostFile(<<>>, 0, Zeroed)

\* "a", empty
FileEmpty == HostFile(<<97>>, 0, Zeroed)

\* "d/a", 10 bytes
FileSmall == HostFile(<<100, 47, 97>>, 10, [i \in 0..9 |-> 104 + i])

\* a name of n capital letters
LongName(n) == [k \in 1..n |-> 65 + (k % 26)]

\* "b/" and a base name of MAX_FILENAME letters, one block and one byte
FileTwoBlocks == HostFile(<<98, 47>> \o LongName(MAX_FILENAME), BS + 1,
                          [i \in {0, BS - 1, BS} |-> 1 + (i % 7)])

\* a name of MAX_FILENAME-1 letters, exactly DIRECT_MAX blocks
FileMax == HostFile(LongName(MAX_FILENAME - 1), DIRECT_MAX * BS,
                    [i \in {0, 5 * BS + 3, DIRECT_MAX * BS - 1} |-> 1 + (i % 5)])

\* "e", DIRECT_MAX blocks and one byte
FileTooBig == HostFile(<<101>>, DIRECT_MAX * BS + 1, [i \in {DIRECT_MAX * BS} |-> 9])

HostFiles == {FileEmpty, FileSmall, FileTwoBlocks, FileMax, FileTooBig}

\* a fresh 180 KiB image
FreshImage == FormatImage(180, 128, Time(0), Time(0))

\* a 288 KiB image (65 data blocks) whose root directory has one free slot
AlmostFullDir == Prefill(FormatImage(288, 128, Time(0), Time(0)), FileSmall, 61)

\* a 180 KiB image (38 data blocks) with one free data block
AlmostFullData == Prefill(FreshImage, FileEmpty, 36)

\* what the image path may hold when the programs start
InitImages == {NoFile, FreshImage, AlmostFullDir, AlmostFullData}

(***************************************************************************)
(* The state machine                                                        *)
(***************************************************************************)
NoLocals ==
    /\ argv = NoArgs /\ layout = NoLayout /\ img = Zeroed /\ img_size = 0
    /\ sb = Zeroed /\ host_file = NoHostFile /\ need_blocks = 0
    /\ found_inode = -1 /\ blocks_found = <<>> /\ ino = Zeroed
    /\ root_inode = Zeroed

Init ==
    /\ disk \in InitImages
    /\ pc = "idle" /\ outcome = "none" /\ clock = 0 /\ runs = 0
    /\ NoLocals

ResetLocals ==
    /\ argv' = NoArgs /\ layout' = NoLayout /\ img' = Zeroed /\ img_size' = 0
    /\ sb' = Zeroed /\ host_file' = NoHostFile /\ need_blocks' = 0
    /\ found_inode' = -1 /\ blocks_found' = <<>> /\ ino' = Zeroed
    /\ root_inode' = Zeroed

\* return EXIT_FAILURE with the given message, or the final return
Return(o) == pc' = "exit" /\ outcome' = o

\* ---------------- builder ----------------
B_Validate ==
    /\ pc = "idle" /\ runs < MaxRuns
    /\ \E a \in BuilderArgs :
         /\ argv' = a
         /\ runs' = runs + 1
         /\ IF Validate(a.size_kib, a.inode_cnt) # "ok"
            THEN /\ Return(Validate(a.size_kib, a.inode_cnt))
                 /\ UNCHANGED layout
            ELSE /\ pc' = "b_layout" /\ outcome' = "none"
                 /\ layout' = [NoLayout EXCEPT !.total_blocks = TotalBlocks(a.size_kib),
                                               !.inode_cnt = a.inode_cnt]
    /\ UNCHANGED <<disk, clock, img, img_size, sb, host_file, need_blocks,
                   found_inode, blocks_found, ino, root_inode>>

B_Layout ==
    /\ pc = "b_layout"
    /\ IF NoDataRegion(Layout(layout.total_blocks, layout.inode_cnt))
       THEN Return("CapacityError") /\ UNCHANGED layout
       ELSE /\ layout' = Layout(layout.total_blocks, layout.inode_cnt)
            /\ pc' = "b_alloc" /\ UNCHANGED outcome
    /\ UNCHANGED <<disk, clock, runs, argv, img, img_size, sb, host_file,
                   need_blocks, found_inode, blocks_found, ino, root_inode>>

B_Alloc ==
    /\ pc = "b_alloc"
    /\ img' = Zeroed /\ img_size' = layout.total_blocks * BS
    /\ pc' = "b_sb"
    /\ UNCHANGED <<disk, outcome, clock, runs, argv, layout, sb, host_file,
                   need_blocks, found_inode, blocks_found, ino, root_inode>>

B_Superblock ==
    /\ pc = "b_sb"
    /\ \E c \in clock..MaxTick :
         /\ clock' = c
         /\ sb' = BuildSuperblock(layout, Time(c))
         /\ img' = WriteSuperblock(img, BuildSuperblock(layout, Time(c)))
    /\ pc' = "b_bitmaps"
    /\ UNCHANGED <<disk, outcome, runs, argv, layout, img_size, host_file,
                   need_blocks, found_inode, blocks_found, ino, root_inode>>

\* mutant: the bitmaps are written one block early
B_Bitmaps_OneBlockEarly ==
    /\ pc = "b_bitmaps"
    /\ img' = BuildBitmaps_OneBlockEarly(img, layout)
    /\ pc' = "b_inodes"
    /\ UNCHANGED <<disk, outcome, clock, runs, argv, layout, img_size, sb,
                   host_file, need_blocks, found_inode, blocks_found, ino, root_inode>>

B_Bitmaps ==
    /\ pc = "b_bitmaps"
    /\ img' = BuildBitmaps(img, layout)
    /\ pc' = "b_inodes"
    /\ UNCHANGED <<disk, outcome, clock, runs, argv, layout, img_size, sb,
                   host_file, need_blocks, found_inode, blocks_found, ino, root_inode>>

B_InodeTable ==
    /\ pc = "b_inodes"
    /\ \E c \in clock..MaxTick :
         /\ clock' = c
         /\ root_inode' = BuildRootInode(Time(c))
         /\ img' = BuildInodeTable(img, layout, Time(c))
    /\ pc' = "b_rootdir"
    /\ UNCHANGED <<disk, outcome, runs, argv, layout, img_size, sb, host_file,
                   need_blocks, found_inode, blocks_found, ino>>

B_RootDir ==
    /\ pc = "b_rootdir"
    /\ img' = BuildRootDir(img, layout)
    /\ pc' = "b_write"
    /\ UNCHANGED <<disk, outcome, clock, runs, argv, layout, img_size, sb,
                   host_file, need_blocks, found_inode, blocks_found, ino, root_inode>>

B_Write ==
    /\ pc = "b_write"
    /\ disk' = ImageFile(img_size, img)
    /\ Return("Built")
    /\ UNCHANGED <<clock, runs, argv, layout, img, img_size, sb, host_file,
                   need_blocks, found_inode, blocks_found, ino, root_inode>>

\* ---------------- adder ----------------
A_ReadImage ==
    /\ pc = "idle" /\ runs < MaxRuns
    /\ \E f \in HostFiles : host_file' = f
    /\ runs' = runs + 1
    /\ IF disk = NoFile THEN Return("ReadError") /\ UNCHANGED <<img, img_size>>
       ELSE IF disk.size < BS
            THEN Return("ImageTooSmall") /\ img' = disk.bytes /\ img_size' = disk.size
            ELSE /\ img' = disk.bytes /\ img_size' = disk.size
                 /\ pc' = "a_parse" /\ outcome' = "none"
    /\ UNCHANGED <<disk, clock, argv, layout, sb, need_blocks, found_inode,
                   blocks_found, ino, root_inode>>

A_ParseSuperblock ==
    /\ pc = "a_parse"
    /\ sb' = ParseSuperblock(img)
    /\ IF BadMagic(ParseSuperblock(img)) THEN Return("BadMagic")
       ELSE pc' = "a_stat" /\ UNCHANGED outcome
    /\ UNCHANGED <<disk, clock, runs, argv, layout, img, img_size, host_file,
                   need_blocks, found_inode, blocks_found, ino, root_inode>>

A_Stat ==
    /\ pc = "a_stat"
    /\ need_blocks' = NeedBlocks(host_file.size)
    /\ IF TooLarge(NeedBlocks(host_file.size)) THEN Return("FileTooLarge")
       ELSE pc' = "a_inode" /\ UNCHANGED outcome
    /\ UNCHANGED <<disk, clock, runs, argv, layout, img, img_size, sb, host_file,
                   found_inode, blocks_found, ino, root_inode>>

A_FindInode ==
    /\ pc = "a_inode"
    /\ found_inode' = FindFreeInode(img, sb, 0)
    /\ IF FindFreeInode(img, sb, 0) < 0 THEN Return("NoFreeInode")
       ELSE pc' = "a_blocks" /\ UNCHANGED outcome
    /\ UNCHANGED <<disk, clock, runs, argv, layout, img, img_size, sb, host_file,
                   need_blocks, blocks_found, ino, root_inode>>

\* bit_set of the data bits blocks_found[k..]
RECURSIVE ReserveBlocks(_, _, _, _)
ReserveBlocks(m, s, found, k) ==
    IF k >= Len(found) THEN m
    ELSE ReserveBlocks(bit_set(m, data_bm_of(s), found[k + 1]), s, found, k + 1)

\* mutant: the scan reserves each free block as it finds it
A_FindBlocks_Reserving ==
    /\ pc = "a_blocks"
    /\ blocks_found' = FindFreeBlocks(img, sb, need_blocks, 0, <<>>)
    /\ img' = ReserveBlocks(img, sb, FindFreeBlocks(img, sb, need_blocks, 0, <<>>), 0)
    /\ IF NotEnoughBlocks(FindFreeBlocks(img, sb, need_blocks, 0, <<>>), need_blocks)
       THEN Return("NoFreeBlocks")
       ELSE pc' = "a_mkinode" /\ UNCHANGED outcome
    /\ UNCHANGED <<disk, clock, runs, argv, layout, img_size, sb, host_file,
                   need_blocks, found_inode, ino, root_inode>>

A_FindBlocks ==
    /\ pc = "a_blocks"
    /\ blocks_found' = FindFreeBlocks(img, sb, need_blocks, 0, <<>>)
    /\ IF NotEnoughBlocks(FindFreeBlocks(img, sb, need_blocks, 0, <<>>), need_blocks)
       THEN Return("NoFreeBlocks")
       ELSE pc' = "a_mkinode" /\ UNCHANGED outcome
    /\ UNCHANGED <<disk, clock, runs, argv, layout, img, img_size, sb, host_file,
                   need_blocks, found_inode, ino, root_inode>>

A_MakeInode ==
    /\ pc = "a_mkinode"
    /\ \E c \in clock..MaxTick :
         /\ clock' = c
         /\ ino' = MakeInode(host_file.size, Time(c), blocks_found, need_blocks)
    /\ pc' = "a_mark"
    /\ UNCHANGED <<disk, outcome, runs, argv, layout, img, img_size, sb, host_file,
                   need_blocks, found_inode, blocks_found, root_inode>>

A_Mark ==
    /\ pc = "a_mark"
    /\ img' = MarkAndCopy(img, sb, found_inode, blocks_found, need_blocks, host_file)
    /\ pc' = "a_wrinode"
    /\ UNCHANGED <<disk, outcome, clock, runs, argv, layout, img_size, sb, host_file,
                   need_blocks, found_inode, blocks_found, ino, root_inode>>

A_WriteInode ==
    /\ pc = "a_wrinode"
    /\ img' = WriteInode(img, sb, found_inode, ino)
    /\ pc' = "a_root"
    /\ UNCHANGED <<disk, outcome, clock, runs, argv, layout, img_size, sb, host_file,
                   need_blocks, found_inode, blocks_found, ino, root_inode>>

A_ReadRoot ==
    /\ pc = "a_root"
    /\ root_inode' = ReadRootInode(img, sb)
    /\ IF RootInvalid(ReadRootInode(img, sb), sb)
       THEN /\ Return("CorruptRootPointer")
            /\ img' = RootInvalidExit(img, sb, found_inode, blocks_found, need_blocks)
       ELSE pc' = "a_dirent" /\ UNCHANGED <<outcome, img>>
    /\ UNCHANGED <<disk, clock, runs, argv, layout, img_size, sb, host_file,
                   need_blocks, found_inode, blocks_found, ino>>

\* some occupied entry of the root block has the name of entry nde
NameTaken(m, root_block, nde) ==
    \E k \in 0..((BS \div DIRENT_SIZE) - 1) :
        /\ LoadLE(m, root_block + k * DIRENT_SIZE + DE_INODE_NO, 4) # 0
        /\ LoadBytes(m, root_block + k * DIRENT_SIZE + DE_NAME, MAX_FILENAME)
              = LoadBytes(nde, DE_NAME, MAX_FILENAME)

\* mutant: a name the directory already holds is refused like a full directory
A_Dirent_NoDuplicates ==
    /\ pc = "a_dirent"
    /\ LET root_block == root_block_of(root_inode, sb)
           off == FindFreeDirent(img, root_block, 0)
           nde == NewDirent(found_inode + 1, host_file.path)
       IN  IF off < 0 \/ NameTaken(img, root_block, nde)
           THEN /\ img' = NoSlotRollback(img, sb, found_inode, blocks_found, need_blocks)
                /\ Return("NoFreeDirEntry")
           ELSE /\ img' = WriteDirent(img, root_block, off, nde)
                /\ pc' = "a_rootupd" /\ UNCHANGED outcome
    /\ UNCHANGED <<disk, clock, runs, argv, layout, img_size, sb, host_file,
                   need_blocks, found_inode, blocks_found, ino, root_inode>>

\* mutant: the buffer is written out although no directory slot was found
A_Dirent_Persisting ==
    /\ pc = "a_dirent"
    /\ LET root_block == root_block_of(root_inode, sb)
           off == FindFreeDirent(img, root_block, 0)
       IN  IF off < 0
           THEN /\ img' = NoSlotRollback(img, sb, found_inode, blocks_found, need_blocks)
                /\ disk' = ImageFile(img_size, img')
                /\ Return("NoFreeDirEntry")
           ELSE /\ img' = WriteDirent(img, root_block, off,
                                      NewDirent(found_inode + 1, host_file.path))
                /\ pc' = "a_rootupd" /\ UNCHANGED <<outcome, disk>>
    /\ UNCHANGED <<clock, runs, argv, layout, img_size, sb, host_file,
                   need_blocks, found_inode, blocks_found, ino, root_inode>>

A_Dirent ==
    /\ pc = "a_dirent"
    /\ LET root_block == root_block_of(root_inode, sb)
           off == FindFreeDirent(img, root_block, 0)
       IN  IF off < 0
           THEN /\ img' = NoSlotRollback(img, sb, found_inode, blocks_found, need_blocks)
                /\ Return("NoFreeDirEntry")
           ELSE /\ img' = WriteDirent(img, root_block, off,
                                      NewDirent(found_inode + 1, host_file.path))
                /\ pc' = "a_rootupd" /\ UNCHANGED outcome
    /\ UNCHANGED <<disk, clock, runs, argv, layout, img_size, sb, host_file,
                   need_blocks, found_inode, blocks_found, ino, root_inode>>

A_UpdateRoot ==
    /\ pc = "a_rootupd"
    /\ root_inode' = UpdateRootInode(root_inode)
    /\ img' = WriteRootInode(img, sb, UpdateRootInode(root_inode))
    /\ pc' = "a_sb"
    /\ UNCHANGED <<disk, outcome, clock, runs, argv, layout, img_size, sb, host_file,
                   need_blocks, found_inode, blocks_found, ino>>

A_UpdateSuperblock ==
    /\ pc = "a_sb"
    /\ \E c \in clock..MaxTick :
         /\ clock' = c
         /\ sb' = UpdateSuperblock(sb, Time(c))
         /\ img' = WriteSuperblock(img, UpdateSuperblock(sb, Time(c)))
    /\ pc' = "a_write"
    /\ UNCHANGED <<disk, outcome, runs, argv, layout, img_size, host_file,
                   need_blocks, found_inode, blocks_found, ino, root_inode>>

A_Write ==
    /\ pc = "a_write"
    /\ disk' = ImageFile(img_size, img)
    /\ Return("Added")
    /\ UNCHANGED <<clock, runs, argv, layout, img, img_size, sb, host_file,
                   need_blocks, found_inode, blocks_found, ino, root_inode>>

\* the process ends: its buffers and locals are gone
Exit ==
    /\ pc = "exit"
    /\ pc' = "idle"
    /\ ResetLocals
    /\ UNCHANGED <<disk, outcome, clock, runs>>

Next ==
    \/ B_Validate \/ B_Layout \/ B_Alloc \/ B_Superblock \/ B_Bitmaps
    \/ B_InodeTable \/ B_RootDir \/ B_Write
    \/ A_ReadImage \/ A_ParseSuperblock \/ A_Stat \/ A_FindInode \/ A_FindBlocks
    \/ A_MakeInode \/ A_Mark \/ A_WriteInode \/ A_ReadRoot \/ A_Dirent
    \/ A_UpdateRoot \/ A_UpdateSuperblock \/ A_Write
    \/ Exit

Spec == Init /\ [][Next]_vars

(***************************************************************************)
(* Images that no builder run produced                                      *)
(***************************************************************************)
\* a fresh image whose magic tag is not MVSF
BadMagicImage == ImageFile(FreshImage.size, StoreLE(FreshImage.bytes, SB_MAGIC, 4, 0))

\* a fresh image whose root inode's direct[0] is data_region_blocks
CorruptRootImage ==
    LET s == ParseSuperblock(FreshImage.bytes)
    IN  ImageFile(FreshImage.size,
                  StoreLE(FreshImage.bytes, inode_tbl_of(s) + INO_DIRECT, 4,
                          data_region_blocks_of(s)))

\* a fresh image with every bit below inode_count set in the inode bitmap
FullInodeBitmapImage ==
    LET s == ParseSuperblock(FreshImage.bytes)
    IN  ImageFile(FreshImage.size,
                  StoreBytes(FreshImage.bytes, inode_bm_of(s),
                             [k \in 1..(inode_count_of(s) \div 8) |-> 255]))

ForeignImages == {BadMagicImage, CorruptRootImage, FullInodeBitmapImage}

InitAny ==
    /\ disk \in InitImages \cup ForeignImages
    /\ pc = "idle" /\ outcome = "none" /\ clock = 0 /\ runs = 0
    /\ NoLocals

\* the programs on any file found at the image path
SpecAny == InitAny /\ [][Next]_vars

\* (total_blocks, inode_count) handed to the layout calculation
LayoutInputs ==
    ((1..8) \X {1, 32, 33, 128, 160}) \cup {<<45, 128>>, <<45, 129>>, <<72, 512>>}

InitLayout ==
    /\ disk = NoFile
    /\ pc = "b_layout" /\ outcome = "none" /\ clock = 0 /\ runs = 1
    /\ \E tc \in LayoutInputs :
         layout = [NoLayout EXCEPT !.total_blocks = tc[1], !.inode_cnt = tc[2]]
    /\ argv = NoArgs /\ img = Zeroed /\ img_size = 0
    /\ sb = Zeroed /\ host_file = NoHostFile /\ need_blocks = 0
    /\ found_inode = -1 /\ blocks_found = <<>> /\ ino = Zeroed
    /\ root_inode = Zeroed

\* the builder entered at its layout calculation
SpecLayout == InitLayout /\ [][Next]_vars

(***************************************************************************)
(* Reading an image                                                         *)
(***************************************************************************)
\* The superblock is read in place: it lies at offset 0 of the image m.

\* the offset of inode-table slot idx
InodeOff(m, idx) == inode_tbl_of(m) + idx * INODE_SIZE

\* the offset of root directory slot k: the root inode is table slot 0, its
\* block is direct[0]
DirentOff(m, k) ==
    data_region_of(m) + LoadLE(m, InodeOff(m, ROOT_INO - 1) + INO_DIRECT, 4) * BS
        + k * DIRENT_SIZE

\* the indices of the bits set in the bitmap block at offset bm
SetBits(m, bm) ==
    {i \in {8 * (j - bm) + b : j \in {x \in DOMAIN m : x >= bm /\ x < bm + BS}, b \in 0..7} :
        bit_get(m, bm, i) = 1}

\* the indices of the allocated inodes
InodeBits(m) == SetBits(m, inode_bm_of(m))

\* the relative indices of the allocated data blocks
DataBits(m) == SetBits(m, data_bm_of(m))

CeilDiv(a, b) == IF a % b = 0 THEN a \div b ELSE (a \div b) + 1

Max(a, b) == IF a >= b THEN a ELSE b

\* size_bytes of the inode at table slot idx
SizeOf(m, idx) == LoadLE(m, InodeOff(m, idx) + INO_SIZE_BYTES, 8)

LinksOf(m, idx) == LoadLE(m, InodeOff(m, idx) + INO_LINKS, 2)

\* direct[k] of the inode at table slot idx
DirectOf(m, idx, k) == LoadLE(m, InodeOff(m, idx) + INO_DIRECT + 4 * k, 4)

\* the number of direct pointers in use: 1 for the root, else by size_bytes
BlocksOf(m, idx) ==
    IF idx = ROOT_INO - 1 THEN 1 ELSE Max(1, CeilDiv(SizeOf(m, idx), BS))

\* the data blocks the inode at table slot idx points to
PointersOf(m, idx) == {DirectOf(m, idx, k) : k \in 0..(BlocksOf(m, idx) - 1)}

\* inode_no of root directory slot k
EntryIno(m, k) == LoadLE(m, DirentOff(m, k) + DE_INODE_NO, 4)

\* type of root directory slot k
TypeOf(m, k) == Get(m, DirentOff(m, k) + DE_TYPE)

\* the name field of root directory slot k, byte by byte
NameOf(m, k) == LoadBytes(m, DirentOff(m, k) + DE_NAME, MAX_FILENAME)

\* mode of the inode at table slot idx
ModeOf(m, idx) == LoadLE(m, InodeOff(m, idx) + INO_MODE, 2)

\* the occupied slots of the root directory block
Occupied(m) == {k \in 0..((BS \div DIRENT_SIZE) - 1) : EntryIno(m, k) # 0}

\* the bytes of the file at inode slot idx, block after block in pointer order
ReadBack(m, idx) ==
    LET dr   == data_region_of(m)
        base(k) == dr + DirectOf(m, idx, k) * BS
        at   == {<<k, j>> \in (0..(BlocksOf(m, idx) - 1)) \X DOMAIN m :
                    j >= base(k) /\ j < base(k) + BS}
    IN  [o \in {p[1] * BS + (p[2] - base(p[1])) : p \in at} |->
            m[base(o \div BS) + (o % BS)]]

\* checksums recomputed from the bytes of the image
SuperblockVerifies(m) ==
    LoadBytes(m, SB_CHECKSUM, 4) = crc32(Memset0(Slice(m, 0, BS), SB_CHECKSUM, 4), BS - 4)

InodeVerifies(m, idx) ==
    LoadBytes(m, InodeOff(m, idx) + INO_CRC, 8)
        = crc32(Slice(m, InodeOff(m, idx), INO_CRC), INO_CRC) \o <<0, 0, 0, 0>>

DirentVerifies(m, k) ==
    Get(m, DirentOff(m, k) + DE_CHECKSUM) = dirent_xor(Slice(m, DirentOff(m, k), DIRENT_SIZE), DE_CHECKSUM)

\* the outcomes of the adder that fail before anything is allocated
EarlyFailures == {"BadMagic", "FileTooLarge", "NoFreeInode", "NoFreeBlocks"}

AdderFailures == EarlyFailures \cup {"CorruptRootPointer", "NoFreeDirEntry"}

\* the images a valid builder run can write
FreshImages ==
    {FormatImage(a.size_kib, a.inode_cnt, Time(c[1]), Time(c[2])) :
        a \in {x \in BuilderArgs : Validate(x.size_kib, x.inode_cnt) = "ok"},
        c \in {y \in (0..MaxTick) \X (0..MaxTick) : y[1] <= y[2]}}

(***************************************************************************)
(* Claims                                                                   *)
(***************************************************************************)
\* the adder has returned with outcome o; img is its buffer at return and,
\* no output having been written, disk.bytes is its buffer at call
AdderFailed(o) == pc = "exit" /\ outcome = o

\* C1: when the adder fails with NoFreeDirEntry, its image buffer at return is
\* identical to the buffer at call: the bitmap bits set while marking are
\* clear again and the inode-table slot and data blocks are as before.
C1_NoSlotBufferRestored ==
    AdderFailed("NoFreeDirEntry") => img = disk.bytes

\* C2: when the adder fails with BadMagic, FileTooLarge, NoFreeInode or
\* NoFreeBlocks, the image buffer is byte-for-byte the input image, and up to
\* and including the free-block count check no byte of the buffer (so no
\* bitmap bit) has been changed.
C2_EarlyFailureLeavesBuffer ==
    /\ (pc = "exit" /\ outcome \in EarlyFailures) => img = disk.bytes
    /\ pc \in {"a_parse", "a_stat", "a_inode", "a_blocks", "a_mkinode", "a_mark"}
          => img = disk.bytes

C2_Witness ==
    /\ AdderFailed("NoFreeBlocks")
    /\ Len(blocks_found) = 1 /\ need_blocks = 2
    /\ DataBits(img) # {}

\* C3: in every image the builder or a successful adder run produced, data
\* bitmap bit i is set iff some allocated inode has i among its in-use direct
\* pointers, and no bit at index >= data_region_blocks is set.
C3_DataBitmapMatchesPointers ==
    disk # NoFile =>
        /\ DataBits(disk.bytes) = UNION {PointersOf(disk.bytes, i) : i \in InodeBits(disk.bytes)}
        /\ \A i \in DataBits(disk.bytes) : i < data_region_blocks_of(disk.bytes)

C3_Witness ==
    /\ pc = "exit" /\ outcome = "Added" /\ need_blocks = DIRECT_MAX
    /\ Cardinality(DataBits(disk.bytes)) = 1 + DIRECT_MAX + 2

\* C4: after a successful add to a freshly formatted image the root directory
\* holds exactly one entry beyond "." and ".."; its inode's size_bytes is the
\* input length, the bytes of its blocks in pointer order cut at size_bytes are
\* the input, and every byte of the last block past the file's end is zero.
C4_RoundTrip ==
    (pc = "a_write" /\ disk \in FreshImages) =>
        /\ Occupied(img) = {0, 1, 2}
        /\ \A k \in {0, 1} : Slice(img, DirentOff(img, k), DIRENT_SIZE)
                              = Slice(disk.bytes, DirentOff(disk.bytes, k), DIRENT_SIZE)
        /\ LET idx == EntryIno(img, 2) - 1
           IN  /\ SizeOf(img, idx) = host_file.size
               /\ LET back == ReadBack(img, idx)
                  IN  /\ [o \in {x \in DOMAIN back : x < host_file.size} |-> back[o]]
                            = host_file.bytes
                      /\ \A o \in DOMAIN back : o < host_file.size

C4_Witness ==
    /\ pc = "a_write" /\ disk \in FreshImages
    /\ host_file = FileTwoBlocks
    /\ ReadBack(img, EntryIno(img, 2) - 1) = FileTwoBlocks.bytes

\* C5: in every image output by the builder or by a successful adder run, the
\* superblock checksum, the crc of every allocated inode and the checksum of
\* every occupied root directory entry equal the value recomputed from the
\* bytes stored in the image.
C5_ChecksumsVerify ==
    (pc = "exit" /\ outcome \in {"Built", "Added"}) =>
        /\ SuperblockVerifies(disk.bytes)
        /\ \A i \in InodeBits(disk.bytes) : InodeVerifies(disk.bytes, i)
        /\ \A k \in Occupied(disk.bytes) : DirentVerifies(disk.bytes, k)

C5_Witness ==
    /\ pc = "exit" /\ outcome = "Added"
    /\ Cardinality(Occupied(disk.bytes)) = 4
    /\ LoadLE(disk.bytes, SB_MTIME_EPOCH, 8) = Time(1)
    /\ LoadLE(disk.bytes, InodeOff(disk.bytes, 0) + INO_MTIME, 8) = Time(0)

\* C6: the root inode's link count is the number of occupied root directory
\* slots and its size_bytes is 64 times that number: 2 and 128 after format,
\* one more link and 64 more bytes after each successful add, and both
\* unchanged by a failed add.
C6_RootCountsEntries ==
    /\ disk # NoFile =>
          /\ LinksOf(disk.bytes, 0) = Cardinality(Occupied(disk.bytes))
          /\ SizeOf(disk.bytes, 0) = 64 * Cardinality(Occupied(disk.bytes))
    /\ (pc = "exit" /\ outcome = "Built") =>
          LinksOf(disk.bytes, 0) = 2 /\ SizeOf(disk.bytes, 0) = 128
    /\ pc = "a_write" =>
          /\ LinksOf(img, 0) = LinksOf(disk.bytes, 0) + 1
          /\ SizeOf(img, 0) = SizeOf(disk.bytes, 0) + 64
    /\ (pc = "exit" /\ outcome \in AdderFailures) =>
          /\ LinksOf(img, 0) = LinksOf(disk.bytes, 0)
          /\ SizeOf(img, 0) = SizeOf(disk.bytes, 0)

C6_Witness ==
    /\ pc = "exit" /\ outcome = "Added"
    /\ LinksOf(disk.bytes, 0) = 64 /\ SizeOf(disk.bytes, 0) = BS

\* the image has a free inode, a free root directory slot and n free blocks
HasRoomFor(m, n) ==
    /\ \E i \in 0..(inode_count_of(m) - 1) : i \notin InodeBits(m)
    /\ Cardinality(Occupied(m)) < 64
    /\ data_region_blocks_of(m) - Cardinality(DataBits(m)) >= n

\* C7: the adder needs max(1, ceil(file_size/4096)) blocks and fails with
\* FileTooLarge exactly when that exceeds 12: with a free inode, a free
\* directory slot and 12 free blocks a file of 12*4096 bytes is added, and a
\* file of 12*4096+1 bytes fails with FileTooLarge.
C7_NeedBlocksAndLimit ==
    /\ pc \in {"a_inode", "a_blocks", "a_mkinode", "a_mark", "a_wrinode", "a_root",
               "a_dirent", "a_rootupd", "a_sb", "a_write"}
          => /\ need_blocks = Max(1, CeilDiv(host_file.size, 4096))
             /\ need_blocks <= 12
    /\ (pc = "exit" /\ outcome \in AdderFailures \cup {"Added"}) =>
          (outcome = "FileTooLarge" <=> Max(1, CeilDiv(host_file.size, 4096)) > 12)
    /\ (pc = "exit" /\ outcome \in AdderFailures /\ host_file.size = 12 * 4096) =>
          ~HasRoomFor(disk.bytes, 12)
    /\ (pc = "exit" /\ outcome \in AdderFailures \cup {"Added"}
          /\ host_file.size = 12 * 4096 + 1) => outcome = "FileTooLarge"

C7_Witness ==
    /\ pc = "exit" /\ outcome = "Added"
    /\ host_file.size = 12 * 4096 /\ need_blocks = 12

\* C8: when the root inode's first direct pointer is not below
\* data_region_blocks the adder fails with CorruptRootPointer without writing
\* to the root directory block, the root inode or the superblock, and the
\* inode bit and data bits it set are not left set at return.
C8_CorruptRootRolledBack ==
    AdderFailed("CorruptRootPointer") =>
        /\ Slice(img, 0, BS) = Slice(disk.bytes, 0, BS)
        /\ ReadRootInode(img, sb) = ReadRootInode(disk.bytes, sb)
        /\ bit_get(img, inode_bm_of(sb), found_inode) = 0
        /\ \A k \in 1..need_blocks : bit_get(img, data_bm_of(sb), blocks_found[k]) = 0

\* C9: the adder writes the image file only in its last step, after every
\* step of the add has succeeded, and what it writes is the result of the
\* complete add; a run that fails leaves the image file as it was.
C9_OutputOnlyAfterSuccess ==
    [][ /\ (disk' # disk /\ pc \notin {"b_write"}) =>
              /\ pc = "a_write" /\ outcome' = "Added"
              /\ \E c1, c2 \in 0..MaxTick :
                    disk' = AddedImage(disk, host_file, Time(c1), Time(c2))
        /\ (pc' = "exit" /\ outcome' \in AdderFailures) => disk' = disk ]_vars

C9_Witness ==
    /\ AdderFailed("NoFreeDirEntry")
    /\ img # disk.bytes

NameField(name) == [k \in 1..58 |-> IF k <= Len(name) THEN name[k] ELSE 0]

\* C11: the image the builder writes has exactly bit 0 set in each bitmap, a
\* root inode at table slot 0 with mode directory, links 2, size_bytes 128 and
\* direct[0] 0, root directory slots 0 and 1 holding "." and ".." with
\* inode_no 1 and type directory, and every other directory slot, inode-table
\* slot and data block zeroed.
C11_FreshImageContents ==
    (pc = "exit" /\ outcome = "Built") =>
        LET m == disk.bytes
        IN  /\ InodeBits(m) = {0}
            /\ DataBits(m) = {0}
            /\ ModeOf(m, 0) = 16384
            /\ LinksOf(m, 0) = 2
            /\ SizeOf(m, 0) = 128
            /\ DirectOf(m, 0, 0) = 0
            /\ \A k \in {0, 1} : EntryIno(m, k) = 1 /\ TypeOf(m, k) = 2
            /\ NameOf(m, 0) = NameField(<<46>>)
            /\ NameOf(m, 1) = NameField(<<46, 46>>)
            /\ DirentOff(m, 0) = data_region_of(m)
            /\ \A x \in DOMAIN m :
                  ( \/ x >= InodeOff(m, 1) /\ x < data_region_of(m)
                    \/ x >= data_region_of(m) + 2 * 64 ) => m[x] = 0
            /\ \A x \in DOMAIN m : x < disk.size

C11_Witness ==
    /\ pc = "exit" /\ outcome = "Built"
    /\ inode_count_of(disk.bytes) = 129
    /\ data_region_of(disk.bytes) = 8 * BS

\* C12: the name stored in the new directory entry is the file's base name
\* truncated to 58 bytes: a base name of 58 or more bytes is stored as its
\* first 58 bytes with no terminator, a shorter one whole with zeros after it.
C12_NameTruncatedTo58 ==
    (pc = "exit" /\ outcome = "Added") =>
        \E k \in Occupied(disk.bytes) :
            /\ EntryIno(disk.bytes, k) = found_inode + 1
            /\ NameOf(disk.bytes, k) = NameField(BaseName(host_file.path))

\* the least element of a non-empty set of numbers
Least(S) == CHOOSE k \in S : \A j \in S : k <= j

\* the bytes of root directory slot k
SlotOf(m, k) == Slice(m, DirentOff(m, k), DIRENT_SIZE)

\* C13: a successful add writes the new entry into the lowest-indexed root
\* directory slot whose inode_no is 0 and leaves the other 63 slots unchanged;
\* starting from a fresh image the occupied slots are therefore always the
\* first ones, the k-th add taking slot k+1, and no add succeeds once the 64
\* slots are occupied (at most 62 adds).
C13_FirstFreeSlot ==
    /\ disk # NoFile =>
          /\ Occupied(disk.bytes) = 0..(Cardinality(Occupied(disk.bytes)) - 1)
          /\ Cardinality(Occupied(disk.bytes)) - 2 <= 62
    /\ pc = "a_write" =>
          LET free == (0..63) \ Occupied(disk.bytes)
          IN  /\ free # {}
              /\ EntryIno(img, Least(free)) = found_inode + 1
              /\ Occupied(img) = Occupied(disk.bytes) \cup {Least(free)}
              /\ Least(free) = (LinksOf(disk.bytes, 0) - 2) + 2
              /\ \A k \in (0..63) \ {Least(free)} : SlotOf(img, k) = SlotOf(disk.bytes, k)
    /\ AdderFailed("NoFreeDirEntry") => Occupied(disk.bytes) = 0..63

C13_Witness ==
    /\ pc = "a_write"
    /\ Occupied(img) = 0..63
    /\ Occupied(disk.bytes) = 0..62

\* C14: allocation is first-fit: the new inode number is 1 plus the lowest
\* clear inode-bitmap index below inode_count, and the new inode's direct
\* pointers are the need_blocks lowest clear data-bitmap indices below
\* data_region_blocks in ascending order; on a fresh image the first file gets
\* inode number 2 and direct[0] = 1, and in every image the k-th added file has
\* inode number k+1 and blocks right after those of the file before it.
C14_FirstFit ==
    /\ pc \in {"a_blocks", "a_mkinode", "a_mark", "a_wrinode", "a_root", "a_dirent",
               "a_rootupd", "a_sb", "a_write"} =>
          found_inode = Least((0..(inode_count_of(disk.bytes) - 1)) \ InodeBits(disk.bytes))
    /\ pc \in {"a_mkinode", "a_mark", "a_wrinode", "a_root", "a_dirent",
               "a_rootupd", "a_sb", "a_write"} =>
          /\ Len(blocks_found) = need_blocks
          /\ \A k \in 1..need_blocks :
                /\ blocks_found[k] < data_region_blocks_of(disk.bytes)
                /\ blocks_found[k] \notin DataBits(disk.bytes)
                /\ k > 1 => blocks_found[k - 1] < blocks_found[k]
          /\ \A j \in 0..blocks_found[need_blocks] :
                j \notin DataBits(disk.bytes) => \E k \in 1..need_blocks : blocks_found[k] = j
    /\ pc = "a_write" =>
          /\ \E k \in Occupied(img) \ Occupied(disk.bytes) : EntryIno(img, k) = found_inode + 1
          /\ \A k \in 1..need_blocks : DirectOf(img, found_inode, k - 1) = blocks_found[k]
          /\ disk \in FreshImages => found_inode + 1 = 2 /\ DirectOf(img, 1, 0) = 1
    /\ disk # NoFile =>
          \A k \in Occupied(disk.bytes) \ {0, 1} :
              /\ EntryIno(disk.bytes, k) = k
              /\ DirectOf(disk.bytes, k - 1, 0)
                    = IF k = 2 THEN 1
                      ELSE DirectOf(disk.bytes, k - 2, 0) + BlocksOf(disk.bytes, k - 2)
              /\ \A t \in 0..(BlocksOf(disk.bytes, k - 1) - 1) :
                    DirectOf(disk.bytes, k - 1, t) = DirectOf(disk.bytes, k - 1, 0) + t

C14_Witness ==
    /\ pc = "a_write"
    /\ found_inode = 2
    /\ blocks_found = <<3, 4>>

\* the superblock fields of image m other than mtime_epoch and checksum
LayoutFields(m) ==
    << LoadLE(m, SB_MAGIC, 4), LoadLE(m, SB_VERSION, 4), LoadLE(m, SB_BLOCK_SIZE, 4),
       LoadLE(m, SB_TOTAL_BLOCKS, 8), LoadLE(m, SB_INODE_COUNT, 8),
       LoadLE(m, SB_INODE_BITMAP_START, 8), LoadLE(m, SB_INODE_BITMAP_BLOCKS, 8),
       LoadLE(m, SB_DATA_BITMAP_START, 8), LoadLE(m, SB_DATA_BITMAP_BLOCKS, 8),
       LoadLE(m, SB_INODE_TABLE_START, 8), LoadLE(m, SB_INODE_TABLE_BLOCKS, 8),
       LoadLE(m, SB_DATA_REGION_START, 8), LoadLE(m, SB_DATA_REGION_BLOCKS, 8),
       LoadLE(m, SB_ROOT_INODE, 8), LoadLE(m, SB_FLAGS, 4) >>

\* the same fields as format writes them for tb blocks and ic inodes
FormatFields(tb, ic) ==
    << 1297503046, 1, 4096, tb, ic, 1, 1, 2, 1, 3, CeilDiv(ic * 128, 4096),
       3 + CeilDiv(ic * 128, 4096), tb - (3 + CeilDiv(ic * 128, 4096)), 1, 0 >>

\* block 0 of image m with mtime_epoch and checksum blanked
Block0Frame(m) == Memset0(Memset0(Slice(m, 0, BS), SB_MTIME_EPOCH, 8), SB_CHECKSUM, 4)

\* C15: the adder never changes the superblock's layout: magic, version,
\* block_size, total_blocks, inode_count, every region start and block count,
\* root_inode and flags are as format wrote them after any add; only
\* mtime_epoch and checksum may differ, and the output is as long as the input.
C15_LayoutImmutable ==
    /\ disk # NoFile =>
          /\ LayoutFields(disk.bytes)
                = FormatFields(LoadLE(disk.bytes, SB_TOTAL_BLOCKS, 8),
                               LoadLE(disk.bytes, SB_INODE_COUNT, 8))
          /\ disk.size = LoadLE(disk.bytes, SB_TOTAL_BLOCKS, 8) * 4096
    /\ pc = "a_write" =>
          /\ LayoutFields(img) = LayoutFields(disk.bytes)
          /\ Block0Frame(img) = Block0Frame(disk.bytes)
          /\ img_size = disk.size
    /\ (pc = "exit" /\ outcome = "Added") => disk = ImageFile(img_size, img)

C15_Witness ==
    /\ pc = "exit" /\ outcome = "Added"
    /\ LoadLE(disk.bytes, SB_MTIME_EPOCH, 8) = Time(1)
    /\ LayoutFields(disk.bytes) = LayoutFields(FreshImage.bytes)
    /\ Slice(disk.bytes, 0, BS) # Slice(FreshImage.bytes, 0, BS)

\* C16 as claimed: in the builder, writing the finalized superblock to block 0
\* is the last mutation of the image buffer: once block 0 holds it, the buffer
\* does not change again (bitmaps, root inode and root entries came before).
C16_SuperblockWrittenLast ==
    [][ (pc \in {"b_sb", "b_bitmaps", "b_inodes", "b_rootdir"}
            /\ Slice(img, 0, BS) # Zeroed) => img' = img ]_vars

\* C16, amended: in the builder the superblock, its checksum finalized after
\* all its other fields are set, is the first write into the zeroed buffer;
\* the bitmaps, the root inode and the root entries are written after it and
\* leave block 0 as it is, so the image written out has the superblock as
\* finalized, with a checksum that verifies.
C16_SuperblockWrittenFirst ==
    [][ /\ pc = "b_sb" =>
              /\ img = Zeroed
              /\ img' = sb'
              /\ SuperblockVerifies(img')
        /\ pc \in {"b_bitmaps", "b_inodes", "b_rootdir"} =>
              /\ img' # img
              /\ Slice(img', 0, BS) = Slice(img, 0, BS)
              /\ Slice(img', 0, BS) = sb'
        /\ pc = "b_write" =>
              /\ Slice(disk'.bytes, 0, BS) = sb
              /\ SuperblockVerifies(disk'.bytes) ]_vars

C16_Witness ==
    /\ pc = "b_write"
    /\ Slice(img, 0, BS) = sb
    /\ SuperblockVerifies(img)
    /\ InodeBits(img) = {0} /\ DataBits(img) = {0} /\ Occupied(img) = {0, 1}

\* the occupied slots of image m whose name is the base name of path
SameName(m, path) == {k \in Occupied(m) : NameOf(m, k) = NameField(BaseName(path))}

\* C17: the adder makes no duplicate-name check: adding a file whose base name
\* the root directory already holds succeeds whenever there is a free inode,
\* free blocks and a free slot, and leaves two occupied entries with equal
\* names and different inode numbers.
C17_DuplicateNamesAccepted ==
    /\ (pc = "exit" /\ outcome \in AdderFailures
          /\ SameName(disk.bytes, host_file.path) # {}
          /\ host_file.size <= 12 * 4096) =>
          ~HasRoomFor(disk.bytes, Max(1, CeilDiv(host_file.size, 4096)))
    /\ pc = "a_write" =>
          /\ Cardinality(Occupied(img) \ Occupied(disk.bytes)) = 1
          /\ \A kn \in Occupied(img) \ Occupied(disk.bytes) :
                \A k \in SameName(disk.bytes, host_file.path) :
                    /\ k \in Occupied(img)
                    /\ NameOf(img, k) = NameOf(img, kn)
                    /\ EntryIno(img, k) # EntryIno(img, kn)

C17_Witness ==
    /\ pc = "a_write"
    /\ host_file = FileSmall
    /\ Occupied(disk.bytes) = {0, 1, 2}
    /\ SameName(disk.bytes, host_file.path) = {2}
    /\ NameOf(img, 2) = NameField(<<97>>) /\ NameOf(img, 3) = NameField(<<97>>)
    /\ EntryIno(img, 2) = 2 /\ EntryIno(img, 3) = 3

\* the offsets at which images m and n differ
DiffAt(m, n) == {x \in DOMAIN m \cup DOMAIN n : Get(m, x) # Get(n, x)}

\* C18: in every image made by format and adds no data block is among the
\* in-use direct pointers of two inodes (nor twice among those of one), and a
\* successful add writes file content only into blocks whose bitmap bit was
\* clear before: the blocks of earlier files keep their content, and the root
\* directory block changes in the one slot that receives the new entry.
C18_NoBlockShared ==
    /\ disk # NoFile =>
          LET ib  == InodeBits(disk.bytes)
              ptr == [i \in ib |-> PointersOf(disk.bytes, i)]
              \* the (inode, block) pairs: as many as blocks iff no block is shared
              owned == UNION {{<<i, b>> : b \in ptr[i]} : i \in ib}
          IN  /\ Cardinality(owned) = Cardinality(UNION {ptr[i] : i \in ib})
              /\ \A i \in ib : Cardinality(ptr[i]) = BlocksOf(disk.bytes, i)
    /\ pc = "a_write" =>
          LET dr      == data_region_of(disk.bytes)
              root    == DirectOf(disk.bytes, 0, 0)
              used    == DataBits(disk.bytes)
              changed == {x \in DiffAt(img, disk.bytes) : x >= dr}
          IN  /\ \A k \in 1..need_blocks : blocks_found[k] \notin used
              /\ root \in used
              /\ \A x \in changed :
                    \/ \E k \in 1..need_blocks : blocks_found[k] = (x - dr) \div BS
                    \/ (x - dr) \div BS = root
              /\ \A x \in changed : (x - dr) \div BS \in used => (x - dr) \div BS = root
              /\ Cardinality({((x - dr) % BS) \div 64 :
                                 x \in {y \in changed : (y - dr) \div BS = root}}) = 1

C18_Witness ==
    /\ pc = "a_write"
    /\ host_file = FileSmall
    /\ blocks_found = <<2>>
    /\ Get(disk.bytes, data_region_of(disk.bytes) + BS) = 104
    /\ Get(img, data_region_of(img) + BS) = 104
    /\ Get(img, data_region_of(img) + 2 * BS) = 104

\* C19: in every image made by format and successful adds the inode bitmap
\* and the root directory agree: every occupied slot other than "." and ".."
\* holds a distinct inode number n in 2..inode_count whose bit n-1 is set and
\* whose inode has mode file and links 1, every set bit other than bit 0 is
\* referenced by exactly one occupied slot, and no bit >= inode_count is set.
C19_InodeBitmapMatchesDirectory ==
    disk # NoFile =>
        LET m   == disk.bytes
            ib  == InodeBits(m)
            occ == Occupied(m) \ {0, 1}
            ref == {EntryIno(m, k) : k \in occ}
        IN  /\ \A n \in ref :
                  /\ n >= 2 /\ n <= inode_count_of(m)
                  /\ (n - 1) \in ib
                  /\ ModeOf(m, n - 1) = 32768
                  /\ LinksOf(m, n - 1) = 1
            /\ Cardinality(ref) = Cardinality(occ)
            /\ {n - 1 : n \in ref} = ib \ {0}
            /\ 0 \in ib
            /\ \A i \in ib : i < inode_count_of(m)

C19_Witness ==
    /\ pc = "exit" /\ outcome = "Added"
    /\ InodeBits(disk.bytes) = 0..62
    /\ {EntryIno(disk.bytes, k) : k \in 2..63} = 2..63

\* C20: on an image made by the builder (128 <= inode_count <= 512) and
\* changed only by the adder, NoFreeInode cannot happen: the 64-slot root
\* directory bounds the allocated inodes by 63 < inode_count, so the scan for
\* a free inode always finds one and adds end in NoFreeDirEntry or
\* NoFreeBlocks before the inode bitmap is full.
C20_NoFreeInodeUnreachable ==
    /\ outcome # "NoFreeInode"
    /\ pc \in {"a_blocks", "a_mkinode", "a_mark", "a_wrinode", "a_root", "a_dirent",
               "a_rootupd", "a_sb", "a_write"} => found_inode >= 0
    /\ disk # NoFile =>
          /\ inode_count_of(disk.bytes) >= 128 /\ inode_count_of(disk.bytes) <= 512
          /\ Cardinality(InodeBits(disk.bytes)) = Cardinality(Occupied(disk.bytes)) - 1
          /\ Cardinality(InodeBits(disk.bytes)) <= 63
          /\ Cardinality(InodeBits(disk.bytes)) < inode_count_of(disk.bytes)
    /\ (pc = "exit" /\ outcome \in AdderFailures) =>
          outcome \in {"FileTooLarge", "NoFreeBlocks", "NoFreeDirEntry"}

C20_Witness ==
    /\ AdderFailed("NoFreeDirEntry")
    /\ Cardinality(InodeBits(disk.bytes)) = 63
    /\ inode_count_of(disk.bytes) = 128
    /\ found_inode = 63

====
